---- MODULE Spec2Model ----
(***************************************************************************)
(* A model of the cooper actor library: the blocking queue, the            *)
(* work_thread task executor built on it, and the actor facade.            *)
(*                                                                         *)
(* Every critical section of the queue (one acquisition of lock_) is one   *)
(* atomic step; a wait on a condition variable ends the step and the       *)
(* thread resumes in a later step, after it has been notified.             *)
(***************************************************************************)
EXTENDS Integers, Sequences, FiniteSets, TLC

(* Bounds of the model *)
MaxTasks == 3
MaxQuits == 1
MaxCap == 2
MaxPuts == 3
MaxNow == 5
MaxTime == 2
MaxStarts == 2

(* thread_queue::MAX_CAPACITY, numeric_limits<size_type>::max(): larger    *)
(* than every queue length the model reaches (written within TLC's         *)
(* integer range).                                                         *)
MAX_CAPACITY == 2147483647

(* The threads: client threads that submit tasks, the thread that owns    *)
(* the work_thread object (it calls quit() and runs the destructor), and   *)
(* the internal thread started by the constructor.                         *)
Clients == {"c1", "c2"}
Owner == "owner"
Worker == "worker"
Threads == Clients \cup {Owner, Worker}
NoThread == "nobody"

(* The closures the clients submit, as <<call or cast, closure>>. After    *)
(* file_manager: cast of a handler that updates actor-owned data (here a   *)
(* counter it increments), cast of a closure that throws, and flush(),     *)
(* which is call([]{}).                                                    *)
CounterTasks ==
    { <<"cast", "inc">>, <<"cast", "fail">>, <<"call", "noop">> }

(* After shared_keyval: set(k, v) is cast(handle_set), get(k) is           *)
(* call(handle_get); and call of a closure that throws.                    *)
KeyValTasks ==
    { <<"cast", "set">>, <<"call", "get">>, <<"call", "fail">> }

VARIABLES
    que_,          \* thread_queue::que_ (of work_thread::que_): task ids, head first
    cap_,          \* thread_queue::cap_
    nTasks_,       \* thread_queue::nTasks_
    notEmptyWait,  \* threads blocked on notEmptyCond_
    notFullWait,   \* threads blocked on notFullCond_
    quit_,         \* work_thread::quit_
    thr_,          \* work_thread::thr_: identity of the internal thread
    pc,            \* where each thread stands
    n_,            \* each thread's local n (que_.size() read on entry to put/get)
    arg,           \* the task a thread is putting, awaiting or running
    tasks,         \* every packaged_task created so far; a task's id is its index
    future,        \* shared state of each task's future
    ret,           \* what the last call() of each client delivered
    kv_,           \* actor-owned data: shared_keyval::kv_[k]
    count_,        \* actor-owned data: a counter
    tmp,           \* the value an increment read when it started
    dtor,          \* the destructor has begun
    nquit,         \* number of explicit quit() calls so far
    enq,           \* history: task ids in the order their enqueue took effect
    exe,           \* history: task ids in the order they were invoked
    ranOn,         \* history: the thread each invocation of exe ran on
    done,          \* history: tasks that ran to completion
    snap,          \* history: Len(enq) when each client's current call was issued
    quitMark,      \* history: Len(enq) when quit_ was first set (-1 before)
    dtorMark,      \* history: Len(enq) when the destructor began (-1 before)
    tasksDoneWait, \* threads blocked on tasksDoneCond_
    rv,            \* what the last try_put, try_get, task_done or wait returned
    ndone,         \* history: number of task_done() calls made while nTasks_ > 0
    capHist,       \* history: how capacity(n) has been used ("none", "set", "shrunk")
    zeroSeen,      \* history: threads inside wait() since whose call nTasks_ was 0
    initTime_,     \* timer::initTime_, in ticks of the clock
    interval_,     \* timer::interval_
    timer_quit_,   \* timer::quit_
    timer_thr_,    \* timer::thr_: "none" (not joinable) or "thread" (joinable)
    tpc,           \* where the timer's thread stands ("none": there is no thread)
    upc,           \* where the thread using the timer stands in stop() or start()
    now,           \* steady_clock::now()
    to,            \* thread_func's local to, and the deadline of its wait_for
    calls,         \* history: the invocations of func_, in order: the thread that
                   \* made it, the time, the target time, no overrun before it
    gen,           \* history: number of threads start() has launched
    t0,            \* history: now() when the current thread first computed to
    tlast,         \* history: the last stop(), start() or destructor that returned
    stopAt,        \* history: where the thread stood when stop() set quit_
    overlap,       \* history: start() launched a thread while another was live
    overrun        \* history: a callback of this schedule outlasted the interval

vars == << que_, cap_, nTasks_, notEmptyWait, notFullWait, quit_, thr_, pc, n_,
           arg, tasks, future, ret, kv_, count_, tmp, dtor, nquit,
           enq, exe, ranOn, done, snap, quitMark, dtorMark,
           tasksDoneWait, rv, ndone, capHist, zeroSeen,
           initTime_, interval_, timer_quit_, timer_thr_, tpc, upc, now, to,
           calls, gen, t0, tlast, stopAt, overlap, overrun >>

(* The state of a timer *)
thist == << calls, gen, t0, tlast, stopAt, overlap, overrun >>
tmr == << initTime_, interval_, timer_quit_, timer_thr_, tpc, upc, now, to,
          thist >>

(* The state only the queue's own operations touch *)
aux == << tasksDoneWait, rv, ndone, capHist, zeroSeen, tmr >>

qvars == << que_, cap_, nTasks_, notEmptyWait, notFullWait >>
hist  == << enq, exe, ranOn, done, snap, quitMark, dtorMark >>

-----------------------------------------------------------------------------
(* Helpers *)

Pending == [st |-> "pending", val |-> 0]
Value(v) == [st |-> "value", val |-> v]
Exception == [st |-> "exception", val |-> 0]

Range(s) == { s[i] : i \in 1..Len(s) }

(* The client-submitted tasks among the tasks created so far *)
NumClientTasks == Cardinality({ i \in 1..Len(tasks) : tasks[i].by \in Clients })

(* condition_variable::notify_one: the threads one of which is woken (a    *)
(* notification with no waiter is lost)                                    *)
notify_one(flag, waiters) ==
    IF flag /\ waiters # {} THEN waiters ELSE {NoThread}

SetPc(p, t, v) == [x \in Threads |-> IF x = t THEN v ELSE p[x]]

(* Where a thread blocked in a wait stands once it has been woken: it has  *)
(* yet to take the lock again and check its predicate.                     *)
woken(label) ==
    CASE label = "get_wait"  -> "get_woken"
      [] label = "put_wait"  -> "put_woken"
      [] label = "tget_wait" -> "tget_woken"
      [] label = "tput_wait" -> "tput_woken"
      [] label = "wait_wait" -> "wait_woken"
      [] OTHER               -> label

(* The thread w picked by a notify_one leaves its wait *)
Wake(p, w) == IF w = NoThread THEN p ELSE SetPc(p, w, woken(p[w]))

-----------------------------------------------------------------------------
(* thread_queue *)

(* An insert that leaves the count of outstanding tasks alone *)
queue_item_nocount(q, nt, n, val) ==
    [que |-> Append(q, val), nTasks |-> nt, notify |-> (n = 0)]

(* An insert that never signals notEmptyCond_ *)
queue_item_nonotify(q, nt, n, val) ==
    [que |-> Append(q, val), nTasks |-> nt + 1, notify |-> FALSE]

(* queue_item(g, val): the new contents and task count, and whether        *)
(* notEmptyCond_ is signalled; n is the caller's local n.                  *)
queue_item(q, nt, n, val) ==
    [que |-> Append(q, val), nTasks |-> nt + 1, notify |-> (n = 0)]

(* A removal that takes the newest item instead of the oldest *)
dequeue_item_back(q, cap, n) ==
    [val |-> q[Len(q)], que |-> SubSeq(q, 1, Len(q) - 1), notify |-> (n = cap)]

(* A removal that moves the head out without popping it *)
dequeue_item_nopop(q, cap, n) ==
    [val |-> Head(q), que |-> q, notify |-> (n = cap)]

(* deque_item(g, n): the value moved out, the new contents, and whether    *)
(* notFullCond_ is signalled; n is the caller's local n.                   *)
dequeue_item(q, cap, n) ==
    [val |-> Head(q), que |-> Tail(q), notify |-> (n = cap)]

(* empty() *)
empty(q) == Len(q) = 0

(* A put that lets one more value in than the capacity *)
put_waits_late(n, cap) == n > cap

(* put(val): n >= cap_ on entry, so the caller waits on notFullCond_ *)
put_waits(n, cap) == n >= cap

(* get(): n == 0 on entry, so the caller waits on notEmptyCond_ *)
get_waits(n) == n = 0

(* The insertion that ends a put by thread t (entered with local n), which *)
(* then continues at next: queue_item and its notify_one.                  *)
Enqueue(t, n, id, next) ==
    LET r == queue_item(que_, nTasks_, n, id) IN
    /\ que_' = r.que
    /\ nTasks_' = r.nTasks
    /\ enq' = Append(enq, id)
    /\ \E w \in notify_one(r.notify, notEmptyWait) :
          /\ notEmptyWait' = notEmptyWait \ {w}
          /\ pc' = SetPc(Wake(pc, w), t, next)
    /\ UNCHANGED << cap_, notFullWait >>

(* put(val) by thread t, which continues at next once the value is in *)
put(t, id, next) ==
    LET n == Len(que_) IN
    IF put_waits(n, cap_)
      THEN /\ notFullWait' = notFullWait \cup {t}
           /\ pc' = SetPc(pc, t, "put_wait")
           /\ n_' = [n_ EXCEPT ![t] = n]
           /\ arg' = [arg EXCEPT ![t] = id]
           /\ UNCHANGED << que_, cap_, nTasks_, notEmptyWait, enq >>
      ELSE /\ Enqueue(t, n, id, next)
           /\ n_' = n_
           /\ arg' = [arg EXCEPT ![t] = IF next = "await" THEN id ELSE 0]

(* Where thread t continues once the value id it was putting is in: the    *)
(* owner inside quit() or the destructor, a client inside call() or        *)
(* cast(), a thread that uses the queue directly.                          *)
put_next(t, id) ==
    IF t = Owner /\ tasks[id].by = Owner /\ tasks[id].op = "noop"
      THEN IF dtor THEN "join" ELSE "idle"
      ELSE IF tasks[id].kind = "call" THEN "await" ELSE "idle"

(* put(val): the waiter on notFullCond_ was woken; it takes the lock       *)
(* again, checks the predicate que_.size() < cap_ and inserts with the n   *)
(* it read on entry.                                                       *)
put_resume(t) ==
    /\ pc[t] = "put_woken"
    /\ IF Len(que_) < cap_
         THEN /\ Enqueue(t, n_[t], arg[t], put_next(t, arg[t]))
              /\ n_' = [n_ EXCEPT ![t] = 0]
              /\ arg' = [arg EXCEPT ![t] =
                             IF put_next(t, arg[t]) = "await" THEN @ ELSE 0]
         ELSE /\ notFullWait' = notFullWait \cup {t}
              /\ pc' = SetPc(pc, t, "put_wait")
              /\ UNCHANGED << que_, cap_, nTasks_, notEmptyWait, enq, n_, arg >>
    /\ UNCHANGED << quit_, thr_, tasks, future, ret, kv_, count_, tmp, dtor,
                    nquit, exe, ranOn, done, snap, quitMark, dtorMark >>
    /\ UNCHANGED aux

(* A condition variable may wake a waiter that nobody notified; the        *)
(* waiter then checks its predicate like any woken waiter.                 *)
spurious_wakeup(t) ==
    /\ pc[t] \in {"get_wait", "put_wait", "tget_wait", "tput_wait", "wait_wait"}
    /\ pc' = SetPc(pc, t, woken(pc[t]))
    /\ notEmptyWait' = notEmptyWait \ {t}
    /\ notFullWait' = notFullWait \ {t}
    /\ tasksDoneWait' = tasksDoneWait \ {t}
    /\ UNCHANGED << que_, cap_, nTasks_, quit_, thr_, n_, arg, tasks, future,
                    ret, kv_, count_, tmp, dtor, nquit, hist, rv, ndone, capHist, zeroSeen,
                    tmr >>

-----------------------------------------------------------------------------
(* work_thread: the submitting side *)

(* Where a submitter continues after submit(): call() goes on to           *)
(* future::get(), cast() returns.                                          *)
after_submit(kind) == IF kind = "call" THEN "await" ELSE "idle"

(* submit(f) by client c, as call(f) or cast(f): a packaged_task and its   *)
(* future are created and the task is put into the queue.                  *)
submit(c, kind, op) ==
    LET id == Len(tasks) + 1 IN
    /\ pc[c] = "idle"
    /\ ~dtor
    /\ NumClientTasks < MaxTasks
    /\ tasks' = Append(tasks, [op |-> op, kind |-> kind, by |-> c])
    /\ future' = Append(future, Pending)
    /\ snap' = [snap EXCEPT ![c] = IF kind = "call" THEN Len(enq) ELSE @]
    /\ put(c, id, after_submit(kind))
    /\ UNCHANGED << quit_, thr_, ret, kv_, count_, tmp, dtor, nquit,
                    exe, ranOn, done, quitMark, dtorMark >>
    /\ UNCHANGED aux

(* call(f): future::get() returns once the shared state is ready, with the *)
(* value or the exception stored in it.                                    *)
(* A call() that does not wait for the shared state to become ready *)
future_ready_nowait(fut) == TRUE

future_ready(fut) == fut.st # "pending"

(* A get() that swallows the stored exception *)
future_get_noexcept(fut) == Value(fut.val)

future_get(fut) == fut

(* Where the caller of call() goes on when it returns: a client is done,   *)
(* a closure that made the call on the internal thread goes on to its end  *)
after_call(c) == IF c = thr_ THEN "returned" ELSE "idle"

call_return(c) ==
    /\ pc[c] = "await"
    /\ future_ready(future[arg[c]])
    /\ ret' = IF c \in Clients
                THEN [ret EXCEPT ![c] = [id |-> arg[c],
                                         res |-> future_get(future[arg[c]])]]
                ELSE ret
    /\ pc' = SetPc(pc, c, after_call(c))
    /\ arg' = [arg EXCEPT ![c] = IF c = thr_ THEN exe[Len(exe)] ELSE 0]
    /\ UNCHANGED << qvars, quit_, thr_, n_, tasks, future, kv_, count_, tmp,
                    dtor, nquit, hist >>
    /\ UNCHANGED aux

-----------------------------------------------------------------------------
(* work_thread: the internal thread *)

(* The actor thread's id, and actor::on_actor_thread() asked by thread t *)
get_id == thr_

(* A comparison against the wrong thread: every caller passes *)
on_actor_thread_any(t) == t = get_id \/ t # get_id

on_actor_thread(t) == t = get_id

(* A loop condition that leaves as soon as quit_ is set *)
loop_cond_nodrain(quit, isEmpty) == ~(quit \/ isEmpty)

(* The loop condition of thread_func: !(quit_ && que_.empty()) *)
loop_cond(quit, isEmpty) == ~(quit /\ isEmpty)

(* The increment of the actor-owned counter: it writes back the value it   *)
(* read when it began, plus one.                                           *)
handle_inc == [kv |-> kv_, count |-> tmp + 1, res |-> Value(0)]

(* What running a closure does to the actor's data and what it returns or  *)
(* throws.                                                                 *)
run_task(op, id) ==
    CASE op = "inc"  -> handle_inc
      [] op = "set"  -> [kv |-> id,  count |-> count_,  res |-> Value(0)]
      [] op = "get"  -> [kv |-> kv_, count |-> count_,  res |-> Value(kv_)]
      [] op = "fail" -> [kv |-> kv_, count |-> count_,  res |-> Exception]
      [] OTHER       -> [kv |-> kv_, count |-> count_,  res |-> Value(0)]

(* Where a thread continues with the value get() returned: thread_func    *)
(* invokes the task it got at once, a thread that uses the queue directly  *)
(* has its value.                                                          *)
after_get(t) == IF t = thr_ THEN "running" ELSE "idle"

(* The removal that ends a get by thread t (entered with local n):         *)
(* dequeue_item and its notify_one.                                        *)
Dequeue(t, n) ==
    LET r == dequeue_item(que_, cap_, n) IN
    /\ que_' = r.que
    /\ \E w \in notify_one(r.notify, notFullWait) :
          /\ notFullWait' = notFullWait \ {w}
          /\ pc' = SetPc(Wake(pc, w), t, after_get(t))
    /\ arg' = [arg EXCEPT ![t] = IF t = thr_ THEN r.val ELSE 0]
    /\ exe' = Append(exe, r.val)
    /\ ranOn' = Append(ranOn, t)
    /\ tmp' = count_
    /\ UNCHANGED << cap_, nTasks_, notEmptyWait >>

(* while (!(quit_ && ...)): the read of the atomic quit_ *)
thread_func_loop(t) ==
    /\ pc[t] = "loop"
    /\ pc' = SetPc(pc, t, IF quit_ THEN "empty" ELSE "get")
    /\ UNCHANGED << qvars, quit_, thr_, n_, arg, tasks, future, ret, kv_, count_,
                    tmp, dtor, nquit, hist >>
    /\ UNCHANGED aux

(* while (!(... && que_.empty())): quit_ was read set *)
thread_func_empty(t) ==
    /\ pc[t] = "empty"
    /\ IF loop_cond(TRUE, empty(que_))
         THEN pc' = SetPc(pc, t, "get")
         ELSE pc' = SetPc(pc, t, "exited")
    /\ UNCHANGED << qvars, quit_, thr_, n_, arg, tasks, future, ret, kv_, count_,
                    tmp, dtor, nquit, enq, exe, ranOn, done, snap, quitMark,
                    dtorMark >>
    /\ UNCHANGED aux

(* get(): the critical section entered by thread t *)
get_enter(t) ==
    LET n == Len(que_) IN
    /\ IF get_waits(n)
         THEN /\ notEmptyWait' = notEmptyWait \cup {t}
              /\ pc' = SetPc(pc, t, "get_wait")
              /\ n_' = [n_ EXCEPT ![t] = n]
              /\ UNCHANGED << que_, cap_, nTasks_, notFullWait, arg, tmp, exe, ranOn >>
         ELSE /\ Dequeue(t, n)
              /\ n_' = n_
    /\ UNCHANGED << quit_, thr_, tasks, future, ret, kv_, count_, dtor, nquit,
                    enq, done, snap, quitMark, dtorMark >>
    /\ UNCHANGED aux

(* que_.get() in thread_func *)
get(t) ==
    /\ pc[t] = "get"
    /\ get_enter(t)

(* que_.get(): the waiter was notified; it takes the lock again, checks    *)
(* the predicate !que_.empty() and removes the head with its old n.        *)
get_resume(t) ==
    /\ pc[t] = "get_woken"
    /\ IF empty(que_)
         THEN /\ notEmptyWait' = notEmptyWait \cup {t}
              /\ pc' = SetPc(pc, t, "get_wait")
              /\ UNCHANGED << que_, cap_, nTasks_, notFullWait, arg, tmp, exe, ranOn >>
         ELSE Dequeue(t, n_[t])
    /\ UNCHANGED << quit_, thr_, n_, tasks, future, ret, kv_, count_, dtor, nquit,
                    enq, done, snap, quitMark, dtorMark >>
    /\ UNCHANGED aux

(* The invoked packaged_task runs to its end: the closure's effect on the  *)
(* actor's data, and its result or exception stored in the shared state.   *)
(* Nothing is thrown into thread_func, whose catch (...) would discard it; *)
(* the loop goes on either way.                                            *)
task_end(t) ==
    LET id == arg[t]
        r  == run_task(tasks[id].op, id) IN
    /\ pc[t] \in {"running", "returned"}
    /\ pc[t] = IF tasks[id].op = "self" THEN "returned" ELSE "running"
    /\ kv_' = r.kv
    /\ count_' = r.count
    /\ future' = [future EXCEPT ![id] = r.res]
    /\ done' = done \cup {id}
    /\ pc' = SetPc(pc, t, "loop")
    /\ arg' = [arg EXCEPT ![t] = 0]
    /\ UNCHANGED << qvars, quit_, thr_, n_, tasks, ret, tmp, dtor, nquit,
                    enq, exe, ranOn, snap, quitMark, dtorMark >>
    /\ UNCHANGED aux

(* A closure that invokes call() on its own actor: on the internal thread  *)
(* it submits a task to the queue of that thread and waits in              *)
(* future::get() for it.                                                   *)
self_call(t) ==
    LET id == Len(tasks) + 1 IN
    /\ t = thr_
    /\ pc[t] = "running"
    /\ tasks[arg[t]].op = "self"
    /\ tasks' = Append(tasks, [op |-> "noop", kind |-> "call", by |-> t])
    /\ future' = Append(future, Pending)
    /\ put(t, id, after_submit("call"))
    /\ UNCHANGED << quit_, thr_, ret, kv_, count_, tmp, dtor, nquit,
                    exe, ranOn, done, snap, quitMark, dtorMark >>
    /\ UNCHANGED aux

thread_func(t) ==
    \/ thread_func_loop(t)
    \/ thread_func_empty(t)
    \/ get(t)
    \/ get_resume(t)
    \/ task_end(t)

-----------------------------------------------------------------------------
(* work_thread: quit() and the destructor, called by the owning thread *)

Mark(m) == IF m = -1 THEN Len(enq) ELSE m

(* quit(): quit_ = true *)
quit ==
    /\ pc[Owner] = "idle"
    /\ ~dtor
    /\ nquit < MaxQuits
    /\ nquit' = nquit + 1
    /\ quit_' = TRUE
    /\ quitMark' = Mark(quitMark)
    /\ pc' = SetPc(pc, Owner, "quit_cast")
    /\ UNCHANGED << qvars, thr_, n_, arg, tasks, future, ret, kv_, count_, tmp,
                    dtor, enq, exe, ranOn, done, snap, dtorMark >>
    /\ UNCHANGED aux

(* quit(): cast([]{}) *)
quit_cast ==
    LET id == Len(tasks) + 1 IN
    /\ pc[Owner] = "quit_cast"
    /\ tasks' = Append(tasks, [op |-> "noop", kind |-> "cast", by |-> Owner])
    /\ future' = Append(future, Pending)
    /\ put(Owner, id, IF dtor THEN "join" ELSE "idle")
    /\ UNCHANGED << quit_, thr_, ret, kv_, count_, tmp, dtor, nquit,
                    exe, ranOn, done, snap, quitMark, dtorMark >>
    /\ UNCHANGED aux

(* ~work_thread(): entry, and the quit_ = true of its quit(). No other     *)
(* thread is inside a member function of an object being destroyed.        *)
destroy ==
    /\ pc[Owner] = "idle"
    /\ ~dtor
    /\ \A c \in Clients : pc[c] = "idle"
    /\ dtor' = TRUE
    /\ dtorMark' = Len(enq)
    /\ quit_' = TRUE
    /\ quitMark' = Mark(quitMark)
    /\ pc' = SetPc(pc, Owner, "quit_cast")
    /\ UNCHANGED << qvars, thr_, n_, arg, tasks, future, ret, kv_, count_, tmp,
                    nquit, enq, exe, ranOn, done, snap >>
    /\ UNCHANGED aux

(* ~work_thread(): thr_.join() returns once the internal thread has exited *)
join ==
    /\ pc[Owner] = "join"
    /\ pc[thr_] = "exited"
    /\ pc' = SetPc(pc, Owner, "destroyed")
    /\ UNCHANGED << qvars, quit_, thr_, n_, arg, tasks, future, ret, kv_, count_,
                    tmp, dtor, nquit, hist >>
    /\ UNCHANGED aux

-----------------------------------------------------------------------------
(* A timer as constructed: quit_ false, no thread; the clock starts at 0.  *)
InitTimer ==
    /\ initTime_ = 0
    /\ interval_ = 0
    /\ timer_quit_ = FALSE
    /\ timer_thr_ = "none"
    /\ tpc = "none"
    /\ upc = [at |-> "idle", op |-> "none", init |-> 0, ival |-> 0]
    /\ now = 0
    /\ to = 0
    /\ calls = << >>
    /\ gen = 0
    /\ t0 = 0
    /\ tlast = "none"
    /\ stopAt = [pc |-> "none", ncalls |-> 0]
    /\ overlap = FALSE
    /\ overrun = FALSE

(* The work_thread as constructed: quit_ false, the queue empty with the   *)
(* default capacity, the internal thread started.                          *)
Init ==
    /\ que_ = << >>
    /\ cap_ = MAX_CAPACITY
    /\ nTasks_ = 0
    /\ notEmptyWait = {}
    /\ notFullWait = {}
    /\ quit_ = FALSE
    /\ thr_ = Worker
    /\ pc = [t \in Threads |-> IF t = Worker THEN "loop" ELSE "idle"]
    /\ n_ = [t \in Threads |-> 0]
    /\ arg = [t \in Threads |-> 0]
    /\ tasks = << >>
    /\ future = << >>
    /\ ret = [c \in Clients |-> [id |-> 0, res |-> Pending]]
    /\ kv_ = 0
    /\ count_ = 0
    /\ tmp = 0
    /\ dtor = FALSE
    /\ nquit = 0
    /\ enq = << >>
    /\ exe = << >>
    /\ ranOn = << >>
    /\ done = {}
    /\ snap = [c \in Clients |-> 0]
    /\ quitMark = -1
    /\ dtorMark = -1
    /\ tasksDoneWait = {}
    /\ rv = [op |-> "none", val |-> 0]
    /\ ndone = 0
    /\ capHist = "none"
    /\ zeroSeen = {}
    /\ InitTimer

(* The steps of the internal thread and of the owning thread, and the     *)
(* return of a pending call()                                              *)
Steps ==
    \/ \E c \in Clients : call_return(c)
    \/ thread_func(thr_)
    \/ quit
    \/ quit_cast
    \/ destroy
    \/ join

(* Clients of an actor that owns a counter *)
Next ==
    \/ \E c \in Clients : \E k \in CounterTasks : submit(c, k[1], k[2])
    \/ Steps

Spec == Init /\ [][Next]_vars

(* Clients of a shared_keyval actor *)
NextKV ==
    \/ \E c \in Clients : \E k \in KeyValTasks : submit(c, k[1], k[2])
    \/ Steps

SpecKV == Init /\ [][NextKV]_vars

(* The tasks of an actor one of whose server methods calls the actor's own *)
(* client API                                                              *)
SelfTasks == { << "call", "self" >>, << "cast", "self" >>,
               << "call", "noop" >>, << "cast", "inc" >> }

(* Clients of that actor; call() returns to whoever called it *)
NextSelf ==
    \/ \E c \in Clients : \E k \in SelfTasks : submit(c, k[1], k[2])
    \/ self_call(thr_)
    \/ \E c \in Clients \cup {thr_} : call_return(c)
    \/ thread_func(thr_)
    \/ quit
    \/ quit_cast
    \/ destroy
    \/ join

SpecSelf == Init /\ [][NextSelf]_vars

(* work_thread::queue_capacity(cap), called by the owning thread on the    *)
(* work_thread it has just constructed, before any task is submitted.      *)
queue_capacity(cap) ==
    /\ pc[Owner] = "idle"
    /\ ~dtor
    /\ tasks = << >>
    /\ capHist = "none"
    /\ cap_' = cap
    /\ capHist' = "set"
    /\ UNCHANGED << que_, nTasks_, notEmptyWait, notFullWait, quit_, thr_, pc,
                    n_, arg, tasks, future, ret, kv_, count_, tmp, dtor, nquit,
                    hist, tasksDoneWait, rv, ndone, zeroSeen,
                    tmr >>

(* Clients of an actor whose queue has been given a capacity *)
NextCap ==
    \/ \E cap \in 1..MaxCap : queue_capacity(cap)
    \/ \E c \in Clients : \E k \in CounterTasks : submit(c, k[1], k[2])
    \/ \E t \in Clients \cup {Owner} : put_resume(t)
    \/ \E t \in Threads : spurious_wakeup(t)
    \/ Steps

SpecCap == Init /\ [][NextCap]_vars

(* The scheduler lets every thread that can take a step take it in the     *)
(* end: the internal thread, the owning thread inside quit() or the        *)
(* destructor, a client whose future is ready. Whether and when a client   *)
(* submits, and whether the owner calls quit() or destroys the object, is  *)
(* up to the program.                                                      *)
Fairness ==
    /\ WF_vars(thread_func(thr_))
    /\ WF_vars(quit_cast)
    /\ WF_vars(join)
    /\ \A c \in Clients : WF_vars(call_return(c))

FairSpec == Spec /\ Fairness

-----------------------------------------------------------------------------
(* thread_queue used directly: two threads insert, wait() and set the     *)
(* capacity, two threads remove and mark tasks done. The values are        *)
(* numbered in the order they are created.                                 *)

Producers == Clients
Consumers == {Owner, Worker}

(* The state of a work_thread, which a thread_queue on its own lacks *)
wt == << quit_, thr_, future, ret, kv_, count_, dtor, nquit, done, quitMark,
         dtorMark >>

(* The value a producer is about to insert *)
Item(t) == [op |-> "item", kind |-> "cast", by |-> t]

(* The operation that returned last and its result: the value inserted or *)
(* removed by a try_ operation (0: it returned false), the count           *)
(* task_done() found, the number of inserts so far when wait() returned.   *)
SetRv(op, val) == [op |-> op, val |-> val]

(* put(val) called by producer t *)
producer_put(t) ==
    /\ pc[t] = "idle"
    /\ Len(tasks) < MaxPuts
    /\ tasks' = Append(tasks, Item(t))
    /\ put(t, Len(tasks) + 1, "idle")
    /\ UNCHANGED << wt, tmp, exe, ranOn, snap, aux >>

(* A try_put that lets one more value in than the capacity *)
try_put_fails_late(n, cap) == n > cap

(* try_put(val): n >= cap_, so it returns false *)
try_put_fails(n, cap) == n >= cap

(* try_put(val) called by producer t *)
try_put(t) ==
    LET n == Len(que_) IN
    /\ pc[t] = "idle"
    /\ Len(tasks) < MaxPuts
    /\ IF try_put_fails(n, cap_)
         THEN /\ rv' = SetRv("try_put", 0)
              /\ UNCHANGED << qvars, pc, tasks, enq >>
         ELSE /\ tasks' = Append(tasks, Item(t))
              /\ Enqueue(t, n, Len(tasks) + 1, "idle")
              /\ rv' = SetRv("try_put", Len(tasks) + 1)
    /\ UNCHANGED << wt, n_, arg, tmp, exe, ranOn, snap, tasksDoneWait, ndone,
                    capHist, zeroSeen,
                    tmr >>

(* try_put_for(val, relTime) and try_put_until(val, absTime) called by     *)
(* producer t: the critical section on entry                               *)
try_put_for(t) ==
    LET n == Len(que_) IN
    /\ pc[t] = "idle"
    /\ Len(tasks) < MaxPuts
    /\ tasks' = Append(tasks, Item(t))
    /\ IF put_waits(n, cap_)
         THEN /\ notFullWait' = notFullWait \cup {t}
              /\ pc' = SetPc(pc, t, "tput_wait")
              /\ n_' = [n_ EXCEPT ![t] = n]
              /\ arg' = [arg EXCEPT ![t] = Len(tasks) + 1]
              /\ UNCHANGED << que_, cap_, nTasks_, notEmptyWait, enq, rv >>
         ELSE /\ Enqueue(t, n, Len(tasks) + 1, "idle")
              /\ rv' = SetRv("try_put_for", Len(tasks) + 1)
              /\ UNCHANGED << n_, arg >>
    /\ UNCHANGED << wt, tmp, exe, ranOn, snap, tasksDoneWait, ndone, capHist, zeroSeen,
                    tmr >>

(* wait_for / wait_until: the time is up for waiter t, which leaves the    *)
(* wait and has yet to take the lock again and check its predicate once    *)
(* more.                                                                   *)
timed_out(t) ==
    /\ pc[t] \in {"tput_wait", "tget_wait"}
    /\ pc' = SetPc(pc, t, IF pc[t] = "tput_wait" THEN "tput_timedout"
                                                ELSE "tget_timedout")
    /\ notFullWait' = notFullWait \ {t}
    /\ notEmptyWait' = notEmptyWait \ {t}
    /\ UNCHANGED << que_, cap_, nTasks_, wt, n_, arg, tasks, tmp, enq, exe,
                    ranOn, snap, aux >>

(* A timed wait that reports a timeout without looking at the predicate *)
wait_for_strict(timedout, pred) == ~timedout /\ pred

(* wait_for(g, relTime, pred) and wait_until(g, absTime, pred): what the   *)
(* wait returns when it ends, notified or timed out, is pred()             *)
wait_for(timedout, pred) == pred

(* The timed wait on notFullCond_ ends, woken or timed out: the predicate  *)
(* que_.size() < cap_ decides whether the value goes in, with the n read   *)
(* on entry; a woken waiter that finds it false waits on, one that timed   *)
(* out returns false.                                                      *)
try_put_for_end(t) ==
    /\ pc[t] \in {"tput_woken", "tput_timedout"}
    /\ IF wait_for(pc[t] = "tput_timedout", Len(que_) < cap_)
         THEN /\ Enqueue(t, n_[t], arg[t], "idle")
              /\ rv' = SetRv("try_put_for", arg[t])
              /\ n_' = [n_ EXCEPT ![t] = 0]
              /\ arg' = [arg EXCEPT ![t] = 0]
         ELSE IF pc[t] = "tput_timedout"
           THEN /\ pc' = SetPc(pc, t, "idle")
                /\ rv' = SetRv("try_put_for", 0)
                /\ n_' = [n_ EXCEPT ![t] = 0]
                /\ arg' = [arg EXCEPT ![t] = 0]
                /\ UNCHANGED << qvars, enq >>
           ELSE /\ notFullWait' = notFullWait \cup {t}
                /\ pc' = SetPc(pc, t, "tput_wait")
                /\ UNCHANGED << que_, cap_, nTasks_, notEmptyWait, enq, rv, n_,
                                arg >>
    /\ UNCHANGED << wt, tasks, tmp, exe, ranOn, snap, tasksDoneWait, ndone,
                    capHist, zeroSeen,
                    tmr >>

(* get() called by consumer t *)
consumer_get(t) ==
    /\ pc[t] = "idle"
    /\ get_enter(t)

(* try_get(&val) called by consumer t *)
try_get(t) ==
    LET n == Len(que_) IN
    /\ pc[t] = "idle"
    /\ IF get_waits(n)
         THEN /\ rv' = SetRv("try_get", 0)
              /\ UNCHANGED << qvars, pc, arg, tmp, exe, ranOn >>
         ELSE /\ Dequeue(t, n)
              /\ rv' = SetRv("try_get", Head(que_))
    /\ UNCHANGED << wt, n_, tasks, enq, snap, tasksDoneWait, ndone, capHist, zeroSeen,
                    tmr >>

(* try_get_for(&val, relTime) and try_get_until(&val, absTime) called by   *)
(* consumer t: the critical section on entry                               *)
try_get_for(t) ==
    LET n == Len(que_) IN
    /\ pc[t] = "idle"
    /\ IF get_waits(n)
         THEN /\ notEmptyWait' = notEmptyWait \cup {t}
              /\ pc' = SetPc(pc, t, "tget_wait")
              /\ n_' = [n_ EXCEPT ![t] = n]
              /\ UNCHANGED << que_, cap_, nTasks_, notFullWait, arg, tmp, exe,
                              ranOn, rv >>
         ELSE /\ Dequeue(t, n)
              /\ rv' = SetRv("try_get_for", Head(que_))
              /\ n_' = n_
    /\ UNCHANGED << wt, tasks, enq, snap, tasksDoneWait, ndone, capHist, zeroSeen,
                    tmr >>

(* The timed wait on notEmptyCond_ ends, woken or timed out: the predicate *)
(* !que_.empty() decides whether a value is removed, with the n read on    *)
(* entry.                                                                  *)
try_get_for_end(t) ==
    /\ pc[t] \in {"tget_woken", "tget_timedout"}
    /\ IF wait_for(pc[t] = "tget_timedout", ~empty(que_))
         THEN /\ Dequeue(t, n_[t])
              /\ rv' = SetRv("try_get_for", Head(que_))
         ELSE IF pc[t] = "tget_timedout"
           THEN /\ pc' = SetPc(pc, t, "idle")
                /\ rv' = SetRv("try_get_for", 0)
                /\ UNCHANGED << qvars, arg, tmp, exe, ranOn >>
           ELSE /\ notEmptyWait' = notEmptyWait \cup {t}
                /\ pc' = SetPc(pc, t, "tget_wait")
                /\ UNCHANGED << que_, cap_, nTasks_, notFullWait, arg, tmp, exe,
                                ranOn, rv >>
    /\ UNCHANGED << wt, n_, tasks, enq, snap, tasksDoneWait, ndone, capHist, zeroSeen,
                    tmr >>

(* A task_done() that decrements whatever the count is *)
task_done_returns_never(nt) == FALSE

(* task_done(): nTasks_ == 0, so it returns at once *)
task_done_returns(nt) == nt = 0

(* --nTasks_ on the unsigned size_type *)
decrement(nt) == IF nt = 0 THEN MAX_CAPACITY ELSE nt - 1

(* A notification that releases one of the waiters only *)
notify_all_one(waiters) ==
    IF waiters = {} THEN {} ELSE { CHOOSE w \in waiters : TRUE }

(* tasksDoneCond_.notify_all(): the waiters it releases *)
notify_all(waiters) == waiters

(* The threads inside wait(), blocked or woken and yet to check nTasks_ *)
InWait == { x \in Threads : pc[x] \in {"wait_wait", "wait_woken"} }

(* task_done() called by consumer t; reaching zero notifies every waiter   *)
(* on tasksDoneCond_.                                                      *)
task_done(t) ==
    /\ pc[t] = "idle"
    /\ rv' = SetRv("task_done", nTasks_)
    /\ IF task_done_returns(nTasks_)
         THEN UNCHANGED << nTasks_, ndone, tasksDoneWait, pc, zeroSeen >>
         ELSE /\ nTasks_' = decrement(nTasks_)
              /\ ndone' = ndone + 1
              /\ IF nTasks_' = 0
                   THEN /\ tasksDoneWait' =
                               tasksDoneWait \ notify_all(tasksDoneWait)
                        /\ pc' = [x \in Threads |->
                                     IF x \in notify_all(tasksDoneWait)
                                       THEN woken(pc[x])
                                       ELSE pc[x]]
                        /\ zeroSeen' = InWait
                   ELSE UNCHANGED << tasksDoneWait, pc, zeroSeen >>
    /\ UNCHANGED << que_, cap_, notEmptyWait, notFullWait, wt, n_, arg, tasks,
                    tmp, enq, exe, ranOn, snap, capHist, tmr >>

(* A wait() that returns as soon as it is woken *)
wait_pred_unchecked(nt) == TRUE

(* The predicate of wait(): nTasks_ == 0 *)
wait_pred(nt) == nt = 0

(* wait() called by producer t: the critical section on entry *)
wait(t) ==
    /\ pc[t] = "idle"
    /\ snap' = [snap EXCEPT ![t] = Len(enq)]
    /\ IF nTasks_ # 0
         THEN /\ tasksDoneWait' = tasksDoneWait \cup {t}
              /\ pc' = SetPc(pc, t, "wait_wait")
              /\ rv' = rv
         ELSE /\ rv' = SetRv("wait", Len(enq))
              /\ UNCHANGED << tasksDoneWait, pc >>
    /\ UNCHANGED << qvars, wt, n_, arg, tasks, tmp, enq, exe, ranOn, ndone,
                    capHist, zeroSeen,
                    tmr >>

(* wait(): the waiter on tasksDoneCond_ was woken; it takes the lock       *)
(* again, checks the predicate and returns or waits on.                    *)
wait_resume(t) ==
    /\ pc[t] = "wait_woken"
    /\ IF wait_pred(nTasks_)
         THEN /\ pc' = SetPc(pc, t, "idle")
              /\ rv' = SetRv("wait", Len(enq))
              /\ tasksDoneWait' = tasksDoneWait
              /\ zeroSeen' = zeroSeen \ {t}
         ELSE /\ tasksDoneWait' = tasksDoneWait \cup {t}
              /\ pc' = SetPc(pc, t, "wait_wait")
              /\ rv' = rv
              /\ zeroSeen' = zeroSeen
    /\ UNCHANGED << qvars, wt, n_, arg, tasks, tmp, enq, exe, ranOn, snap, ndone,
                    capHist, tmr >>

(* capacity(cap): the setter *)
capacity(cap) ==
    /\ cap_' = cap
    /\ capHist' = IF cap < Len(que_) \/ capHist = "shrunk" THEN "shrunk" ELSE "set"
    /\ UNCHANGED << que_, nTasks_, notEmptyWait, notFullWait, wt, pc, n_, arg,
                    tasks, tmp, enq, exe, ranOn, snap, tasksDoneWait, rv, ndone,
                    zeroSeen,
                    tmr >>

(* A thread_queue constructed with a capacity; no work_thread around it *)
InitQ ==
    /\ que_ = << >>
    /\ cap_ \in 1..MaxCap
    /\ nTasks_ = 0
    /\ notEmptyWait = {}
    /\ notFullWait = {}
    /\ quit_ = FALSE
    /\ thr_ = NoThread
    /\ pc = [t \in Threads |-> "idle"]
    /\ n_ = [t \in Threads |-> 0]
    /\ arg = [t \in Threads |-> 0]
    /\ tasks = << >>
    /\ future = << >>
    /\ ret = [c \in Clients |-> [id |-> 0, res |-> Pending]]
    /\ kv_ = 0
    /\ count_ = 0
    /\ tmp = 0
    /\ dtor = FALSE
    /\ nquit = 0
    /\ enq = << >>
    /\ exe = << >>
    /\ ranOn = << >>
    /\ done = {}
    /\ snap = [c \in Clients |-> 0]
    /\ quitMark = -1
    /\ dtorMark = -1
    /\ tasksDoneWait = {}
    /\ rv = [op |-> "none", val |-> 0]
    /\ ndone = 0
    /\ capHist = "none"
    /\ zeroSeen = {}
    /\ InitTimer

(* The operations that insert and remove: blocking, non-blocking, timed;   *)
(* and the task accounting                                                 *)
PutOps ==
    \/ \E t \in Producers : producer_put(t)
    \/ \E t \in Producers : put_resume(t)

GetOps ==
    \/ \E t \in Consumers : consumer_get(t)
    \/ \E t \in Consumers : get_resume(t)

TryOps ==
    \/ \E t \in Producers : try_put(t)
    \/ \E t \in Consumers : try_get(t)

TimedOps ==
    \/ \E t \in Producers : try_put_for(t)
    \/ \E t \in Producers : try_put_for_end(t)
    \/ \E t \in Consumers : try_get_for(t)
    \/ \E t \in Consumers : try_get_for_end(t)
    \/ \E t \in Threads : timed_out(t)

DoneOps ==
    \/ \E t \in Consumers : task_done(t)
    \/ \E t \in Producers : wait(t)
    \/ \E t \in Producers : wait_resume(t)

(* Producers and consumers, with and without time limits *)
NextQ ==
    \/ PutOps
    \/ GetOps
    \/ TryOps
    \/ TimedOps
    \/ \E t \in Threads : spurious_wakeup(t)

SpecQ == InitQ /\ [][NextQ]_vars

(* The same, and the capacity is changed at any time *)
NextQCap ==
    \/ NextQ
    \/ \E cap \in 1..MaxCap : capacity(cap)

SpecQCap == InitQ /\ [][NextQCap]_vars

(* The same, and the consumers mark tasks done *)
NextQCount ==
    \/ NextQ
    \/ \E t \in Consumers : task_done(t)

SpecQCount == InitQ /\ [][NextQCount]_vars

(* Producers and consumers that block, consumers that mark tasks done and  *)
(* producers that wait for that                                            *)
NextQDone ==
    \/ PutOps
    \/ GetOps
    \/ DoneOps
    \/ \E t \in Threads : spurious_wakeup(t)

SpecQDone == InitQ /\ [][NextQDone]_vars

-----------------------------------------------------------------------------
(* timer: a thread that invokes func_ once or periodically, used by one    *)
(* other thread that starts, stops and destroys it. Time is the value of   *)
(* steady_clock in ticks and advances at any moment; a timed wait ends     *)
(* with a timeout at or after its deadline, or without one when the        *)
(* condition variable is notified or wakes spuriously.                     *)

(* The delays and intervals start() is called with *)
Times == 0..MaxTime

(* The state of everything but the timer *)
nontimer == << qvars, wt, pc, n_, arg, tasks, tmp, enq, exe, ranOn, snap,
               tasksDoneWait, rv, ndone, capHist, zeroSeen >>

(* The positions in which the timer's thread is blocked on cond_ *)
Waiting == {"init_wait", "wait_until"}

(* The invocations of func_ made by the thread start() launched last *)
Calls == SelectSeq(calls, LAMBDA c : c.gen = gen)

(* The clock advances *)
Tick ==
    /\ now < MaxNow
    /\ now' = now + 1
    /\ UNCHANGED << initTime_, interval_, timer_quit_, timer_thr_, tpc, upc, to,
                    thist, nontimer >>

(* A thread object that always counts as joinable *)
joinable_always(thr) == TRUE

(* thr_.joinable() *)
joinable(thr) == thr # "none"

(* Where the caller of stop() goes on when stop() returns *)
after_stop(op) ==
    IF op = "start" THEN "launch" ELSE IF op = "dtor" THEN "destroyed" ELSE "idle"

(* stop(), called on its own (op "stop"), by start() or by the destructor: *)
(* it returns at once if thr_ is not joinable and sets quit_ otherwise.    *)
stop_enter(op, init, ival) ==
    /\ IF ~joinable(timer_thr_)
         THEN /\ upc' = [at |-> after_stop(op), op |-> IF op = "start" THEN op ELSE "none",
                         init |-> init, ival |-> ival]
              /\ tlast' = IF op = "stop" THEN "stop_noop"
                          ELSE IF op = "dtor" THEN "dtor" ELSE tlast
              /\ UNCHANGED << timer_quit_, stopAt >>
         ELSE /\ timer_quit_' = TRUE
              /\ upc' = [at |-> "notify", op |-> op, init |-> init, ival |-> ival]
              /\ stopAt' = [pc |-> tpc, ncalls |-> Len(Calls)]
              /\ tlast' = tlast
    /\ UNCHANGED << initTime_, interval_, timer_thr_, tpc, now, to, calls, gen,
                    t0, overlap, overrun, nontimer >>

(* stop() *)
stop ==
    /\ upc.at = "idle"
    /\ stop_enter("stop", 0, 0)

(* start(initTime, interval), up to the end of the stop() it begins with *)
start(initTime, interval) ==
    /\ upc.at = "idle"
    /\ gen < MaxStarts
    /\ stop_enter("start", initTime, interval)

(* ~timer() *)
timer_dtor ==
    /\ upc.at = "idle"
    /\ stop_enter("dtor", 0, 0)

(* stop(): cond_.notify_one() wakes the thread if it is blocked on cond_ *)
stop_notify ==
    /\ upc.at = "notify"
    /\ tpc' = IF tpc \in Waiting THEN "woken" ELSE tpc
    /\ upc' = [upc EXCEPT !.at = "join"]
    /\ UNCHANGED << initTime_, interval_, timer_quit_, timer_thr_, now, to,
                    thist, nontimer >>

(* A join that does not wait for the thread *)
join_returns_early(p) == TRUE

(* thr_.join() returns once the thread has left thread_func *)
join_returns(p) == p = "done"

(* stop(): thr_.join(), after which thr_ is no longer joinable *)
stop_join ==
    /\ upc.at = "join"
    /\ join_returns(tpc)
    /\ timer_thr_' = "none"
    /\ tpc' = IF tpc = "done" THEN "none" ELSE tpc
    /\ upc' = [at |-> after_stop(upc.op),
               op |-> IF upc.op = "start" THEN upc.op ELSE "none",
               init |-> upc.init, ival |-> upc.ival]
    /\ tlast' = IF upc.op = "stop" THEN "stop_joined"
                ELSE IF upc.op = "dtor" THEN "dtor" ELSE tlast
    /\ UNCHANGED << initTime_, interval_, timer_quit_, now, to, calls, gen, t0,
                    stopAt, overlap, overrun, nontimer >>

(* start(), after stop(): the schedule is stored, quit_ cleared and a new  *)
(* thread launched                                                         *)
start_launch ==
    /\ upc.at = "launch"
    /\ initTime_' = upc.init
    /\ interval_' = upc.ival
    /\ timer_quit_' = FALSE
    /\ timer_thr_' = "thread"
    /\ tpc' = "entry"
    /\ upc' = [at |-> "idle", op |-> "none", init |-> 0, ival |-> 0]
    /\ gen' = gen + 1
    /\ t0' = now
    /\ tlast' = "start"
    /\ stopAt' = [pc |-> "none", ncalls |-> 0]
    /\ overlap' = (overlap \/ tpc # "none")
    /\ overrun' = FALSE
    /\ UNCHANGED << now, to, calls, nontimer >>

(* thread_func, after the initial delay: a one-shot returns, a periodic    *)
(* schedule sets its first target, to = now() + interval_                  *)
after_init ==
    IF interval_ = 0
      THEN /\ tpc' = "done"
           /\ UNCHANGED << to, t0 >>
      ELSE /\ tpc' = "loop"
           /\ to' = now + interval_
           /\ t0' = now

(* thread_func starts: it waits for initTime_ if that is neither 0 nor the *)
(* interval                                                                *)
thread_func_enter ==
    /\ tpc = "entry"
    /\ IF initTime_ # 0 /\ initTime_ # interval_
         THEN /\ tpc' = "init_wait"
              /\ to' = now + initTime_
              /\ t0' = t0
         ELSE after_init
    /\ UNCHANGED << initTime_, interval_, timer_quit_, timer_thr_, upc, now,
                    calls, gen, tlast, stopAt, overlap, overrun, nontimer >>

(* func_() is invoked: the history records when, and for which target *)
Invoke ==
    calls' = Append(calls, [gen |-> gen, at |-> now, target |-> to,
                            clean |-> ~overrun])

(* A thread that invokes func_ after a timeout whatever quit_ is *)
or_quit_ignored(flag) == FALSE

(* wait_for(...) == cv_status::no_timeout || quit_, after a timeout: the   *)
(* thread returns exactly if quit_ is set                                  *)
or_quit(flag) == flag

(* cond_.wait_for(g, initTime_) times out: the thread returns if quit_ is  *)
(* set and invokes func_ otherwise                                         *)
init_timeout ==
    /\ tpc = "init_wait"
    /\ now >= to
    /\ IF or_quit(timer_quit_)
         THEN tpc' = "done" /\ calls' = calls
         ELSE tpc' = "init_func" /\ Invoke
    /\ UNCHANGED << initTime_, interval_, timer_quit_, timer_thr_, upc, now, to,
                    gen, t0, tlast, stopAt, overlap, overrun, nontimer >>

(* The first func_() returns *)
init_func_return ==
    /\ tpc = "init_func"
    /\ after_init
    /\ UNCHANGED << initTime_, interval_, timer_quit_, timer_thr_, upc, now,
                    calls, gen, tlast, stopAt, overlap, overrun, nontimer >>

(* while (!quit_): the thread returns or goes on to wait; stop() does not  *)
(* hold lock_, so it can set quit_ and notify between this test and the    *)
(* wait                                                                    *)
loop_test ==
    /\ tpc = "loop"
    /\ tpc' = IF timer_quit_ THEN "done" ELSE "enter_wait"
    /\ UNCHANGED << initTime_, interval_, timer_quit_, timer_thr_, upc, now, to,
                    thist, nontimer >>

(* The thread blocks in cond_.wait_until(g, to) *)
wait_until_enter ==
    /\ tpc = "enter_wait"
    /\ tpc' = "wait_until"
    /\ UNCHANGED << initTime_, interval_, timer_quit_, timer_thr_, upc, now, to,
                    thist, nontimer >>

(* cond_.wait_until(g, to) times out: the thread returns if quit_ is set   *)
(* and invokes func_ otherwise                                             *)
wait_until_timeout ==
    /\ tpc = "wait_until"
    /\ now >= to
    /\ IF or_quit(timer_quit_)
         THEN tpc' = "done" /\ calls' = calls
         ELSE tpc' = "func" /\ Invoke
    /\ UNCHANGED << initTime_, interval_, timer_quit_, timer_thr_, upc, now, to,
                    gen, t0, tlast, stopAt, overlap, overrun, nontimer >>

(* A next target counted from the end of the callback *)
next_to_drift(target, interval, time) == time + interval

(* to = std::max(to+interval_, steady_clock::now()) *)
next_to(target, interval, time) ==
    IF target + interval >= time THEN target + interval ELSE time

(* func_() returns in the loop and the next target is set *)
func_return ==
    /\ tpc = "func"
    /\ to' = next_to(to, interval_, now)
    /\ overrun' = (overrun \/ now > to + interval_)
    /\ tpc' = "loop"
    /\ UNCHANGED << initTime_, interval_, timer_quit_, timer_thr_, upc, now,
                    calls, gen, t0, tlast, stopAt, overlap, nontimer >>

(* The wait on cond_ ends without a timeout (cv_status::no_timeout), which *)
(* thread_func takes for a stop(): it returns                              *)
no_timeout_return ==
    /\ tpc = "woken"
    /\ tpc' = "done"
    /\ UNCHANGED << initTime_, interval_, timer_quit_, timer_thr_, upc, now, to,
                    thist, nontimer >>

(* The thread blocked on cond_ wakes up without a notification *)
timer_spurious_wakeup ==
    /\ tpc \in Waiting
    /\ tpc' = "woken"
    /\ UNCHANGED << initTime_, interval_, timer_quit_, timer_thr_, upc, now, to,
                    thist, nontimer >>

(* A timer, started and stopped by one thread, and the clock *)
NextT ==
    \/ Tick
    \/ stop
    \/ \E i \in Times : \E v \in Times : start(i, v)
    \/ timer_dtor
    \/ stop_notify
    \/ stop_join
    \/ start_launch
    \/ thread_func_enter
    \/ init_timeout
    \/ init_func_return
    \/ loop_test
    \/ wait_until_enter
    \/ wait_until_timeout
    \/ func_return
    \/ no_timeout_return
    \/ timer_spurious_wakeup

SpecT == Init /\ [][NextT]_vars

-----------------------------------------------------------------------------
(* Properties *)

Pos(seq, x) == CHOOSE i \in 1..Len(seq) : seq[i] = x

IsTask(id, kind, op) == tasks[id].kind = kind /\ tasks[id].op = op

(* C1: tasks are executed in exactly the order their enqueues took effect: *)
(* the sequence of invocations is a prefix of the sequence of enqueues,    *)
(* and every invoked task but the latest has run to completion, so a task  *)
(* enqueued earlier finishes before one enqueued later starts.             *)
C1_FifoExecution ==
    /\ Len(exe) <= Len(enq)
    /\ \A i \in 1..Len(exe) : exe[i] = enq[i]
    /\ \A i \in 1..(Len(exe) - 1) : exe[i] \in done

(* Two tasks of different clients have both run, in their enqueue order *)
C1_Witness ==
    /\ Len(exe) >= 2
    /\ tasks[exe[1]].by \in Clients
    /\ tasks[exe[2]].by \in Clients
    /\ tasks[exe[1]].by # tasks[exe[2]].by
    /\ exe[2] \in done

(* C2: at most one task is executing at any moment, every task runs on the *)
(* internal thread and never on the thread that submitted it;              *)
(* on_actor_thread() is true on the thread running a task and false on     *)
(* every client thread.                                                    *)
C2_OneTaskOnActorThread ==
    /\ Cardinality({ t \in Threads : pc[t] = "running" }) <= 1
    /\ Cardinality(Range(exe) \ done) <= 1
    /\ \A i \in 1..Len(exe) :
          /\ on_actor_thread(ranOn[i])
          /\ ranOn[i] # tasks[exe[i]].by
    /\ \A c \in Clients : ~on_actor_thread(c)

(* A task is running on the internal thread while a client waits in call() *)
C2_Witness ==
    /\ pc[thr_] = "running"
    /\ \E c \in Clients : pc[c] = "await" /\ arg[c] = arg[thr_]

(* The increments submitted so far, and those enqueued ahead of task id *)
Incs == { i \in 1..Len(tasks) : tasks[i].op = "inc" }

FlushReturned(c) ==
    /\ pc[c] = "idle"
    /\ ret[c].id # 0
    /\ IsTask(ret[c].id, "call", "noop")

(* C3: once a flush issued after all the increment casts returns, the      *)
(* counter equals the number of increments submitted.                      *)
C3_NoLostUpdate ==
    \A c \in Clients :
        ( /\ FlushReturned(c)
          /\ \A i \in Incs : Pos(enq, i) < Pos(enq, ret[c].id) )
        => count_ = Cardinality(Incs)

(* A flush returned after increments cast by both clients *)
C3_Witness ==
    \E c \in Clients :
        /\ FlushReturned(c)
        /\ \A i \in Incs : Pos(enq, i) < Pos(enq, ret[c].id)
        /\ \A d \in Clients : \E i \in Incs : tasks[i].by = d
        /\ count_ = 2

(* What closure id did when it ran: handle_get returns the value of the    *)
(* last handle_set invoked before it (0: no value), a throwing closure     *)
(* fails, the others return nothing.                                       *)
SetsBefore(id) ==
    { j \in 1..(Pos(exe, id) - 1) : tasks[exe[j]].op = "set" }

Max(S) == CHOOSE x \in S : \A y \in S : y <= x

Outcome(id) ==
    CASE tasks[id].op = "fail" -> Exception
      [] tasks[id].op = "get" ->
            Value(IF SetsBefore(id) = {} THEN 0 ELSE exe[Max(SetsBefore(id))])
      [] OTHER -> Value(0)

(* C4: a call() that has returned was the caller's own task, that task had *)
(* run to completion on the internal thread, and the caller got its        *)
(* outcome: the value it returned, or its failure; a caller still inside   *)
(* call() has not been given anything.                                     *)
C4_CallDeliversOwnOutcome ==
    \A c \in Clients :
        ret[c].id # 0 =>
            /\ tasks[ret[c].id].by = c
            /\ tasks[ret[c].id].kind = "call"
            /\ ret[c].id \in done
            /\ ret[c].res = Outcome(ret[c].id)

(* One client was handed a value a handle_set had stored, the other the    *)
(* failure of its own closure                                              *)
C4_Witness ==
    \E c, d \in Clients :
        /\ ret[c].id # 0 /\ ret[c].res.st = "value" /\ ret[c].res.val # 0
        /\ ret[d].id # 0 /\ ret[d].res.st = "exception"

(* The failed casts that have run *)
FailedCasts == { i \in 1..Len(exe) : IsTask(exe[i], "cast", "fail") /\ exe[i] \in done }

C6_FlushCoversEarlierTasks ==
    \A c \in Clients :
        FlushReturned(c) => \A i \in 1..snap[c] : enq[i] \in done

(* A flush issued behind two queued tasks has returned, while a task       *)
(* submitted after the flush was issued is still pending                   *)
C6_Witness ==
    \E c \in Clients :
        /\ FlushReturned(c)
        /\ snap[c] >= 2
        /\ \E i \in (snap[c] + 1)..Len(enq) : enq[i] \notin done

(* The handle_set casts of client c submitted ahead of task id *)
OwnSetsBefore(c, id) ==
    { i \in 1..(id - 1) : tasks[i].op = "set" /\ tasks[i].by = c }

(* C7: a call(handle_get) returns the value of the last cast(handle_set)   *)
(* the same client issued before it, when no other client writes the key.  *)
C7_CallSeesOwnEarlierCast ==
    \A c \in Clients :
        ( /\ ret[c].id # 0
          /\ tasks[ret[c].id].op = "get"
          /\ OwnSetsBefore(c, ret[c].id) # {}
          /\ \A i \in 1..Len(tasks) : tasks[i].op = "set" => tasks[i].by = c )
        => ret[c].res = Value(Max(OwnSetsBefore(c, ret[c].id)))

(* A client cast two handle_sets and its call(handle_get) returned the     *)
(* second value                                                            *)
C7_Witness ==
    \E c \in Clients :
        /\ ret[c].id # 0
        /\ tasks[ret[c].id].op = "get"
        /\ Cardinality(OwnSetsBefore(c, ret[c].id)) = 2
        /\ ret[c].res = Value(Max(OwnSetsBefore(c, ret[c].id)))

(* C8: once the destructor has returned, the internal thread has exited,   *)
(* no task is running or half-run, and every task whose enqueue took       *)
(* effect before destruction began has been executed.                      *)
C8_DestroyRunsAllEarlierTasks ==
    pc[Owner] = "destroyed" =>
        /\ pc[thr_] = "exited"
        /\ Range(exe) \subseteq done
        /\ \A i \in 1..dtorMark : enq[i] \in done

(* C9: no task is invoked twice, every enqueued task has been invoked or   *)
(* is still in the queue, and when the internal thread has exited every    *)
(* task enqueued before quit was requested has been invoked, once, and has *)
(* run to completion.                                                      *)
C9_InvokedExactlyOnce ==
    /\ \A i, j \in 1..Len(exe) : i # j => exe[i] # exe[j]
    /\ \A i \in 1..Len(enq) :
          (enq[i] \in Range(exe)) # (enq[i] \in Range(que_))
    /\ pc[thr_] = "exited" =>
          \A i \in 1..quitMark : enq[i] \in Range(exe) /\ enq[i] \in done

(* The internal thread has exited; three tasks had been enqueued when quit *)
(* was requested, and all of them have run                                 *)
C9_Witness ==
    /\ pc[thr_] = "exited"
    /\ quitMark >= 3
    /\ \A i \in 1..quitMark : enq[i] \in done

(* The client tasks enqueued after quit was requested *)
PostQuit ==
    { i \in 1..Len(enq) : i > quitMark /\ quitMark # -1 /\ tasks[enq[i]].by \in Clients }

(* C10: a task submitted after quit() is executed at whatever point it is  *)
(* submitted, and its call() gets the result; so the internal thread never *)
(* has exited with such a task left unexecuted or its caller left waiting. *)
C10_PostQuitTaskAlwaysRuns ==
    pc[thr_] = "exited" =>
        /\ \A i \in PostQuit : enq[i] \in done
        /\ \A c \in Clients : pc[c] # "await"

-----------------------------------------------------------------------------
(* work_thread: termination *)

-----------------------------------------------------------------------------
(* work_thread: back-pressure *)

(* C12: with queue_capacity(N) set, never more than N tasks are queued,    *)
(* and a submitter is blocked in put only while the queue is full or while *)
(* a woken submitter is about to fill the room the worker made: nobody     *)
(* stays blocked with room in the queue and no wake-up on its way.         *)
C12_BackPressureReleases ==
    /\ capHist = "set" => Len(que_) <= cap_
    /\ \A t \in Clients \cup {Owner} :
          (pc[t] = "put_wait" /\ Len(que_) < cap_) =>
              \E u \in Clients \cup {Owner} : pc[u] = "put_woken"

-----------------------------------------------------------------------------
(* thread_queue *)

(* C13: the values removed, in the order the removals took effect, are a   *)
(* prefix of the values inserted, in the order the inserts took effect.    *)
C13_FifoPrefix ==
    /\ Len(exe) <= Len(enq)
    /\ exe = SubSeq(enq, 1, Len(exe))

(* Three values put in by both producers have been removed, by both        *)
(* consumers                                                               *)
C13_Witness ==
    /\ thr_ = NoThread
    /\ Len(exe) = 3
    /\ { ranOn[i] : i \in 1..Len(ranOn) } = Consumers
    /\ { tasks[exe[i]].by : i \in 1..Len(exe) } = Producers

(* C14 as stated: the size never exceeds the capacity, whatever the        *)
(* public operations called, capacity(n) among them.                       *)
C14_SizeNeverAboveCapacity == Len(que_) <= cap_

(* C14, amended: no insert takes the size above the capacity, and the size *)
(* is above the capacity only after capacity(n) was called with n below    *)
(* the size of that moment.                                                *)
C14_SizeWithinCapacity ==
    /\ [](capHist # "shrunk" => Len(que_) <= cap_)
    /\ [][Len(que_') > Len(que_) => Len(que_') <= cap_']_vars

(* The queue is full after its capacity was changed, a producer is blocked *)
(* in put, and a value has been removed                                    *)
C14_Witness ==
    /\ thr_ = NoThread
    /\ capHist = "set"
    /\ Len(que_) = cap_
    /\ \E t \in Producers : pc[t] = "put_wait"
    /\ Len(exe) > 0

(* C15: try_put returns in the step that calls it; it returns false and    *)
(* leaves the queue and nTasks_ alone exactly when size >= capacity, and   *)
(* otherwise appends the value and returns true.                           *)
C15_TryPutNeverBlocks ==
    [][\A t \in Producers : try_put(t) =>
          /\ pc'[t] = "idle"
          /\ rv'.op = "try_put"
          /\ (rv'.val = 0) <=> (Len(que_) >= cap_)
          /\ Len(que_) >= cap_ => (que_' = que_ /\ nTasks_' = nTasks_)
          /\ Len(que_) < cap_ =>
                /\ que_' = Append(que_, Len(tasks) + 1)
                /\ nTasks_' = nTasks_ + 1]_vars

(* The queue had been filled to its capacity, one value was removed and a  *)
(* try_put has put the next value in, filling the queue again              *)
C15_Witness ==
    /\ thr_ = NoThread
    /\ capHist = "none"
    /\ Len(enq) = cap_ + 1
    /\ Len(exe) = 1
    /\ Len(que_) = cap_
    /\ rv = [op |-> "try_put", val |-> enq[Len(enq)]]

(* C16: a producer is blocked in put only while the queue is full or while *)
(* a woken producer is about to fill the room a removal made: no producer  *)
(* stays blocked with room in the queue and no wake-up on its way (the     *)
(* capacity being the one the queue was constructed with).                 *)
C16_BlockedPutResumes ==
    \A t \in Producers :
        (pc[t] = "put_wait" /\ Len(que_) < cap_ /\ capHist = "none") =>
            \E u \in Producers : pc[u] \in {"put_woken", "tput_woken"}

(* C17: a consumer is blocked in get only while the queue is empty or      *)
(* while a woken consumer is about to take a value: no consumer stays      *)
(* blocked with a value in the queue and no wake-up on its way.            *)
C17_BlockedGetResumes ==
    \A t \in Consumers :
        (pc[t] = "get_wait" /\ ~empty(que_)) =>
            \E u \in Consumers : pc[u] \in {"get_woken", "tget_woken"}

(* C18: nTasks_ is the number of successful inserts minus the number of    *)
(* task_done() calls made while it was above zero.                         *)
C18_TaskCount == nTasks_ = Len(enq) - ndone

(* Values were inserted, one was removed, a try_put failed and a task was  *)
(* marked done while others are outstanding                                *)
C18_Witness ==
    /\ thr_ = NoThread
    /\ Len(enq) >= 2
    /\ Len(exe) >= 1
    /\ ndone >= 1
    /\ nTasks_ >= 1
    /\ rv = [op |-> "try_put", val |-> 0]

(* C19: task_done() called with nTasks_ == 0 leaves it at 0, changes       *)
(* nothing else of the queue and wakes nobody.                             *)
C19_TaskDoneAtZero ==
    [][\A t \in Consumers : (task_done(t) /\ nTasks_ = 0) =>
          /\ nTasks_' = 0
          /\ UNCHANGED << que_, cap_, notEmptyWait, notFullWait, tasksDoneWait,
                          pc, ndone >>]_vars

(* task_done() has been called with nTasks_ == 0, after a task had been    *)
(* marked done                                                             *)
C19_Witness ==
    /\ thr_ = NoThread
    /\ nTasks_ = 0
    /\ ndone >= 1
    /\ rv = [op |-> "task_done", val |-> 0]

(* C20: wait() returns in a step in which nTasks_ is 0 and every inserted  *)
(* value has been marked done, and it returns in the step that calls it    *)
(* when nTasks_ is 0 already.                                              *)
C20_WaitReturnsAtZero ==
    [][\A t \in Producers :
          /\ ((wait(t) \/ wait_resume(t)) /\ pc'[t] = "idle") =>
                (nTasks_ = 0 /\ Len(enq) = ndone)
          /\ (wait(t) /\ nTasks_ = 0) => pc'[t] = "idle"]_vars

(* A wait() has returned, and more values had been inserted by then than   *)
(* when it was called                                                      *)
C20_Witness ==
    /\ thr_ = NoThread
    /\ rv.op = "wait"
    /\ \A t \in Producers : rv.val > snap[t]

(* C21 as stated: a thread that is inside wait() when a task_done() brings *)
(* nTasks_ to 0 is released and returns; it is never found blocked again,  *)
(* whatever other threads insert meanwhile.                                *)
C21_WaitReturnsOnceZero ==
    \A t \in Producers : t \in zeroSeen => pc[t] # "wait_wait"

(* C21, amended: a task_done() that brings nTasks_ to 0 wakes every thread *)
(* blocked in wait(); a woken thread returns exactly if nTasks_ is 0 when  *)
(* it holds the lock again and blocks again otherwise; and no thread is    *)
(* left blocked in wait() while nTasks_ is 0.                              *)
C21_WaitReturnsIfStillZero ==
    /\ [](\A t \in Producers : pc[t] = "wait_wait" => nTasks_ # 0)
    /\ [][\A t \in Threads :
            /\ (task_done(t) /\ nTasks_ # 0 /\ nTasks_' = 0) =>
                   /\ tasksDoneWait' = {}
                   /\ \A w \in tasksDoneWait : pc'[w] = "wait_woken"
            /\ wait_resume(t) =>
                   /\ (pc'[t] = "idle") <=> (nTasks_ = 0)
                   /\ (pc'[t] = "wait_wait") <=> (nTasks_ # 0)]_vars

(* Both producers were blocked in wait() when nTasks_ reached 0; a value   *)
(* inserted since has one of them blocked again while the other has        *)
(* returned                                                                *)
C21_Witness ==
    /\ thr_ = NoThread
    /\ zeroSeen # {}
    /\ \E t \in zeroSeen : pc[t] = "wait_wait"
    /\ \E t \in Producers : t \notin zeroSeen /\ rv.op = "wait" /\ pc[t] = "idle"
    /\ nTasks_ # 0

(* C22 as stated: nTasks_ is 0 exactly when the queue is empty and as many *)
(* items have been marked done as were inserted.                           *)
C22_ZeroIffRemovedAndDone ==
    (nTasks_ = 0) <=> (empty(que_) /\ ndone = Len(enq))

(* C22, amended: nTasks_ is 0 exactly when as many task_done() calls have  *)
(* counted as values were inserted; the queue is then empty as well        *)
(* provided no more task_done() calls have counted than values were        *)
(* removed.                                                                *)
C22_ZeroIffAllDone ==
    /\ (nTasks_ = 0) <=> (ndone = Len(enq))
    /\ ndone <= Len(exe) =>
          ((nTasks_ = 0) <=> (empty(que_) /\ ndone = Len(enq)))

(* Every value inserted has been removed and marked done, by both          *)
(* consumers, and nTasks_ is back to 0                                     *)
C22_Witness ==
    /\ thr_ = NoThread
    /\ Len(enq) >= 2
    /\ Len(exe) = Len(enq)
    /\ ndone = Len(enq)
    /\ nTasks_ = 0
    /\ rv = [op |-> "task_done", val |-> 1]

(* C23: a timed put that finds the queue full blocks and changes nothing;  *)
(* when its wait ends it returns false, with the queue and nTasks_ as they *)
(* are, exactly if the time is up and the queue is full, and it inserts    *)
(* its value as put does if there is room. A timed get does the same on    *)
(* the empty queue: false and nothing removed if the time is up and the    *)
(* queue is empty, the head removed as get does if there is a value.       *)
C23_TimeoutHasNoEffect ==
    [][/\ \A t \in Producers :
            /\ (try_put_for(t) /\ Len(que_) >= cap_) =>
                   /\ pc'[t] = "tput_wait"
                   /\ UNCHANGED << que_, nTasks_, enq, rv >>
            /\ (try_put_for_end(t) /\ Len(que_) >= cap_) =>
                   /\ UNCHANGED << que_, nTasks_, enq, exe >>
                   /\ pc[t] = "tput_timedout" =>
                         (pc'[t] = "idle" /\ rv' = SetRv("try_put_for", 0))
                   /\ pc[t] = "tput_woken" => (pc'[t] = "tput_wait" /\ rv' = rv)
            /\ (try_put_for_end(t) /\ Len(que_) < cap_) =>
                   /\ que_' = Append(que_, arg[t])
                   /\ nTasks_' = nTasks_ + 1
                   /\ pc'[t] = "idle"
                   /\ rv' = SetRv("try_put_for", arg[t])
       /\ \A t \in Consumers :
            /\ (try_get_for(t) /\ empty(que_)) =>
                   /\ pc'[t] = "tget_wait"
                   /\ UNCHANGED << que_, nTasks_, exe, rv >>
            /\ (try_get_for_end(t) /\ empty(que_)) =>
                   /\ UNCHANGED << que_, nTasks_, enq, exe >>
                   /\ pc[t] = "tget_timedout" =>
                         (pc'[t] = "idle" /\ rv' = SetRv("try_get_for", 0))
                   /\ pc[t] = "tget_woken" => (pc'[t] = "tget_wait" /\ rv' = rv)
            /\ (try_get_for_end(t) /\ ~empty(que_)) =>
                   /\ que_' = Tail(que_)
                   /\ nTasks_' = nTasks_
                   /\ exe' = Append(exe, Head(que_))
                   /\ pc'[t] = "idle"
                   /\ rv' = SetRv("try_get_for", Head(que_))]_vars

(* A timed put has returned false on the full queue, from which a value    *)
(* had been removed and which a timed put had filled again at the end of   *)
(* its wait                                                                *)
C23_Witness ==
    /\ thr_ = NoThread
    /\ rv = [op |-> "try_put_for", val |-> 0]
    /\ Len(que_) = cap_
    /\ Len(exe) >= 1
    /\ Len(enq) >= 2
    /\ Len(tasks) = Len(enq) + 1
    /\ \A t \in Threads : pc[t] = "idle"

(* C24: try_get returns in the step that calls it; it returns false and    *)
(* leaves the queue and nTasks_ alone exactly when the queue is empty, and *)
(* otherwise removes the head, hands it to the caller and returns true,    *)
(* nTasks_ unchanged.                                                      *)
C24_TryGetNeverBlocks ==
    [][\A t \in Consumers : try_get(t) =>
          /\ pc'[t] = "idle"
          /\ rv'.op = "try_get"
          /\ nTasks_' = nTasks_
          /\ (rv'.val = 0) <=> empty(que_)
          /\ empty(que_) => UNCHANGED << que_, exe >>
          /\ ~empty(que_) =>
                /\ que_' = Tail(que_)
                /\ rv'.val = Head(que_)
                /\ exe' = Append(exe, Head(que_))]_vars

(* A try_get has taken the second value out of the full queue, which is   *)
(* empty now, and so has woken the producer that was blocked in put        *)
C24_Witness ==
    /\ thr_ = NoThread
    /\ Len(exe) = 2
    /\ rv = [op |-> "try_get", val |-> exe[2]]
    /\ empty(que_)
    /\ \E t \in Producers : pc[t] = "put_woken"

-----------------------------------------------------------------------------
(* timer *)

(* The schedule started last is a one-shot with a delay *)
OneShot == gen > 0 /\ interval_ = 0 /\ initTime_ > 0

(* C25: a one-shot with initial delay d > 0 invokes func_ at most once and *)
(* not before d has elapsed since start(); when its thread has left        *)
(* thread_func and stop() was not called, func_ has been invoked exactly   *)
(* once.                                                                   *)
C25_OneShotFiresOnce ==
    OneShot =>
        /\ Len(Calls) <= 1
        /\ \A i \in 1..Len(Calls) : Calls[i].at >= t0 + initTime_
        /\ (tpc = "done" /\ ~timer_quit_) => Len(Calls) = 1

(* stop() set quit_ while the thread was blocked in its first wait, func_  *)
(* not yet invoked                                                         *)
EarlyStop == stopAt.pc \in Waiting /\ stopAt.ncalls = 0

(* C26: when stop() has set quit_ while the thread was in its initial      *)
(* wait, func_ is never invoked for that schedule, one-shot or periodic.   *)
C26_EarlyStopPreventsInvocation == EarlyStop => Calls = << >>

(* A periodic schedule with an initial delay was stopped in its initial    *)
(* wait; stop() has returned and the delay has elapsed since               *)
C26_Witness ==
    /\ EarlyStop
    /\ stopAt.pc = "init_wait"
    /\ interval_ > 0
    /\ tlast = "stop_joined"
    /\ now > to

(* C27: once stop() or the destructor has returned, and until start()      *)
(* launches a thread again, there is no timer thread, hence no func_ in    *)
(* flight, and no invocation of func_ begins.                              *)
C27_StopJoinsThread ==
    /\ [](timer_thr_ = "none" => tpc = "none")
    /\ [][calls' # calls =>
            (timer_thr_ = "thread" /\ tpc # "none" /\ upc.at # "destroyed")]_vars

(* The destructor has returned; it had set quit_ while func_ was in flight *)
C27_Witness ==
    /\ upc.at = "destroyed"
    /\ tlast = "dtor"
    /\ stopAt.pc \in {"init_func", "func"}
    /\ Calls # << >>
    /\ tpc = "none"

(* C28: stop() on a timer that has no joinable thread, never started or    *)
(* stopped already, returns in the step that calls it and leaves the       *)
(* timer as it is; after a stop() has returned the timer has no joinable   *)
(* thread, so further calls of stop() are of that kind.                    *)
C28_StopIsIdempotent ==
    /\ []((upc.at = "idle" /\ tlast \in {"stop_noop", "stop_joined"}) =>
             timer_thr_ = "none")
    /\ [][(stop /\ timer_thr_ = "none") =>
             /\ upc' = upc
             /\ UNCHANGED << initTime_, interval_, timer_quit_, timer_thr_, tpc,
                             to, calls >>]_vars

(* stop() has returned at once on a timer that had been started and        *)
(* stopped before                                                          *)
C28_Witness ==
    /\ tlast = "stop_noop"
    /\ gen > 0
    /\ stopAt.pc # "none"
    /\ timer_quit_
    /\ upc.at = "idle"

(* C29: start() never launches a thread while an earlier one is live, an   *)
(* invocation of func_ is made by the thread launched last, and a one-shot *)
(* started again after it had expired and then left alone invokes func_    *)
(* exactly once more.                                                      *)
C29_RestartRunsAfresh ==
    /\ ~overlap
    /\ \A i \in 1..Len(calls) : calls[i].gen <= gen
    /\ (/\ OneShot
        /\ gen >= 2
        /\ \E i \in 1..Len(calls) : calls[i].gen = gen - 1
        /\ tpc = "done"
        /\ ~timer_quit_) => Len(Calls) = 1

(* The schedule started last is periodic with no initial wait *)
Periodic == gen > 0 /\ interval_ > 0 /\ initTime_ \in {0, interval_}

(* C30: a periodic schedule with no initial wait invokes func_ first for   *)
(* the target t0 + T, at or after that time, and as long as no callback    *)
(* has outlasted the interval the k-th invocation is for the target        *)
(* t0 + k*T, however long the callbacks ran.                               *)
C30_PeriodAnchored ==
    Periodic =>
        \A k \in 1..Len(Calls) :
            /\ Calls[k].at >= Calls[k].target
            /\ Calls[k].at > t0
            /\ Calls[k].clean => Calls[k].target = t0 + k * interval_

(* Two invocations of a periodic schedule, the first one late, the second  *)
(* one for the target t0 + 2T all the same                                 *)
C30_Witness ==
    /\ Periodic
    /\ Len(Calls) = 2
    /\ Calls[1].at > Calls[1].target
    /\ Calls[2].clean
    /\ Calls[2].target = t0 + 2 * interval_

(* C31 as stated: when func_ returns in a periodic schedule, the next       *)
(* target is not before the current time and is a multiple of the interval *)
(* away from the anchor t0, also when the callback ran past the target     *)
(* that was next.                                                          *)
C31_SkipToMultiple ==
    [][(func_return /\ Periodic) =>
          /\ to' >= now
          /\ (to' - t0) % interval_ = 0]_vars

(* C31, amended: when func_ returns in a periodic schedule, the next       *)
(* target is the previous one plus the interval, or the current time if    *)
(* that is later; it is never before the current time, and the targets of  *)
(* successive invocations are at least one interval apart, each invocation *)
(* made at or after its target, so missed periods are not made up for.     *)
C31_SkipToNow ==
    /\ [][(func_return /\ Periodic) =>
            /\ to' >= now
            /\ to' >= to + interval_
            /\ now <= to + interval_ => to' = to + interval_
            /\ now > to + interval_ => to' = now]_vars
    /\ [](Periodic =>
            \A k \in 1..Len(Calls) :
                /\ Calls[k].at >= Calls[k].target
                /\ k > 1 => Calls[k].target >= Calls[k-1].target + interval_)

(* The first callback of a schedule with interval 2 ran past the second    *)
(* target; the next invocation was made for a target that is an odd number *)
(* of ticks away from the anchor                                           *)
C31_Witness ==
    /\ Periodic
    /\ interval_ = 2
    /\ overrun
    /\ Len(Calls) = 2
    /\ ~Calls[2].clean
    /\ (Calls[2].target - t0) % 2 = 1

-----------------------------------------------------------------------------
(* thread_queue: signalling *)

(* C32: every removal from a queue whose size equals its capacity, with a  *)
(* producer waiting for space, wakes one of the waiting producers, also    *)
(* when the removing call had to wait for a value first.                   *)
C32_RemovalFromFullSignals ==
    [][(/\ Len(que_') = Len(que_) - 1
        /\ Len(que_) = cap_
        /\ notFullWait # {}) =>
            \E w \in notFullWait :
                /\ w \notin notFullWait'
                /\ pc'[w] \in {"put_woken", "tput_woken"}]_vars

-----------------------------------------------------------------------------
(* work_thread: the loop of the internal thread *)

(* C33: the internal thread has exited only if quit_ is set, and the step  *)
(* in which it leaves its loop is one in which it has read quit_ set and   *)
(* finds the queue empty; failed tasks and an empty queue do not end it.   *)
C33_ExitsOnlyOnQuitAndEmpty ==
    /\ [](pc[thr_] = "exited" => quit_)
    /\ [][(pc[thr_] # "exited" /\ pc'[thr_] = "exited") =>
            /\ pc[thr_] = "empty"
            /\ quit_
            /\ empty(que_)]_vars

(* The internal thread has exited after it had run a cast that failed and  *)
(* the tasks queued behind it, the no-op of quit() among them              *)
C33_Witness ==
    /\ pc[thr_] = "exited"
    /\ quit_
    /\ \E i \in FailedCasts : i < Len(exe)
    /\ Len(exe) = Len(enq)
    /\ empty(que_)

-----------------------------------------------------------------------------
(* timer: further schedules *)

(* C34: when the thread of a schedule started with initial delay 0 and     *)
(* interval 0 has left thread_func, not stopped, func_ has been invoked    *)
(* exactly once.                                                           *)
C34_ZeroDelayOneShotFires ==
    (/\ gen > 0
     /\ initTime_ = 0
     /\ interval_ = 0
     /\ tpc = "done"
     /\ ~timer_quit_) => Len(Calls) = 1

(* C35: once stop() has set quit_ and notified cond_, the timer's thread   *)
(* is not blocked on cond_, so that the thread_.join() of stop() does not  *)
(* have to wait for the deadline of a wait.                                *)
C35_StopWakesThread ==
    upc.at = "join" => tpc \notin Waiting

(* The schedule started last is periodic with an initial delay of its own *)
Delayed == gen > 0 /\ interval_ > 0 /\ initTime_ # 0 /\ initTime_ # interval_

(* C36: a periodic schedule with an initial delay d of its own invokes      *)
(* func_ first for the end of the initial wait, at or after it, and then    *)
(* for that target plus the interval, however long the first callback ran.  *)
C36_SecondTargetAnchored ==
    Delayed =>
        /\ \A k \in 1..Len(Calls) : Calls[k].at >= Calls[k].target
        /\ Len(Calls) >= 2 => Calls[2].target = Calls[1].target + interval_

-----------------------------------------------------------------------------
(* thread_queue: capacity(n) on a queue in use *)

(* C37: capacity(n) returns in the step that calls it and changes neither  *)
(* the queue nor anybody's position, also with n below the size; while the *)
(* size is not below the capacity a put blocks, a try_put fails and no     *)
(* step inserts; and the values removed are still a prefix of the values   *)
(* inserted.                                                               *)
C37_ShrinkBlocksPutsKeepsItems ==
    /\ [](Len(exe) <= Len(enq) /\ exe = SubSeq(enq, 1, Len(exe)))
    /\ [][\A cap \in 1..MaxCap : capacity(cap) =>
              /\ cap_' = cap
              /\ que_' = que_
              /\ nTasks_' = nTasks_
              /\ pc' = pc]_vars
    /\ [][Len(que_) >= cap_ =>
              /\ Len(que_') <= Len(que_)
              /\ \A t \in Producers :
                    /\ producer_put(t) => pc'[t] = "put_wait"
                    /\ try_put(t) => rv' = SetRv("try_put", 0)
                    /\ put_resume(t) => pc'[t] = "put_wait"]_vars

(* Two values were in the queue when capacity(1) was called; one has been  *)
(* removed, the first one put in, and a producer is still blocked in put   *)
C37_Witness ==
    /\ thr_ = NoThread
    /\ capHist = "shrunk"
    /\ cap_ = 1
    /\ Len(enq) = 2
    /\ exe = << enq[1] >>
    /\ que_ = << enq[2] >>
    /\ \E t \in Producers : pc[t] = "put_wait" /\ t \in notFullWait

(* C39: when capacity(n) raises the capacity above the size while          *)
(* producers are blocked on the full queue, the call wakes one of them,    *)
(* which then finds room and inserts; no removal is needed for that.       *)
C39_RaiseReleasesProducer ==
    [][\A cap \in 1..MaxCap :
          (/\ capacity(cap)
           /\ Len(que_) >= cap_
           /\ Len(que_) < cap
           /\ notFullWait # {}) =>
              \E w \in notFullWait :
                  /\ w \notin notFullWait'
                  /\ pc'[w] \in {"put_woken", "tput_woken"}]_vars

-----------------------------------------------------------------------------
(* actor: a server method that calls the client API of its own actor *)

(* The tasks submitted from the internal thread *)
SelfCalls == { i \in 1..Len(tasks) : tasks[i].by = thr_ }

(* C38: a task that invokes call() on its own actor never gets the result: *)
(* the task it submitted is never invoked and its future stays pending,    *)
(* and once the internal thread is in that call() it stays there, and no   *)
(* task is invoked or completed any more.                                  *)
C38_SelfCallDeadlocks ==
    /\ [](\A i \in SelfCalls : /\ i \notin Range(exe)
                                /\ future[i] = Pending)
    /\ [](pc[thr_] = "await" => /\ arg[thr_] \in Range(que_)
                                /\ exe[Len(exe)] \notin done)
    /\ [][pc[thr_] = "await" => /\ pc'[thr_] = "await"
                                /\ exe' = exe
                                /\ done' = done
                                /\ \A i \in 1..Len(future) :
                                      future'[i] = future[i]]_vars

(* The internal thread is inside the call() its task made, the task of a   *)
(* client is queued behind that call, and a client waits in call() for the *)
(* task that made it                                                       *)
C38_Witness ==
    /\ pc[thr_] = "await"
    /\ \E i, j \in 1..Len(que_) :
          /\ i < j
          /\ que_[i] = arg[thr_]
          /\ tasks[que_[j]].by \in Clients
    /\ \E c \in Clients : pc[c] = "await" /\ arg[c] = exe[Len(exe)]

-----------------------------------------------------------------------------
(* timer: a periodic schedule left alone *)

(* C40: the thread of a schedule with an interval leaves thread_func only  *)
(* after stop(), called on its own, by start() or by the destructor, has   *)
(* set quit_; until then it goes on invoking func_.                        *)
C40_PeriodicExitsOnlyOnStop ==
    (gen > 0 /\ interval_ > 0 /\ tpc = "done") => timer_quit_

====
